---- MODULE Spec2Model ----
(***************************************************************************)
(* xbps-dbulk: the dependency graph engine (_buildadd, pkgnamedone) and    *)
(* the job dispatcher (build) of src/xbps-dbulk.c as a state machine.      *)
(*                                                                         *)
(* One behaviour is one invocation of the program on one distdir, possibly *)
(* followed by a second invocation on the filesystem the first one left.   *)
(***************************************************************************)
EXTENDS Integers, Sequences, FiniteSets, TLC

(***************************************************************************)
(* Bounds of the model.                                                    *)
(***************************************************************************)
\* -j N: maxjobs ranges over 0..MaxJobs
MaxJobs == 2

(***************************************************************************)
(* Program constants.                                                      *)
(***************************************************************************)
MTIME_UNKNOWN == -1
MTIME_MISSING == -2

FLAG_WORK  == "WORK"
FLAG_CYCLE == "CYCLE"
FLAG_DEPS  == "DEPS"
FLAG_DIRTY == "DIRTY"
FLAG_SKIP  == "SKIP"

\* size_t arithmetic of nblock (--nblock, nblock++) is modulo SIZE_MOD; the
\* program's 2^64 is narrowed to 2^16, far above any count the model reaches.
SIZE_MOD == 65536

\* the two builders main() creates: host x86_64 and cross aarch64 with
\* cross->host = host
Builders == {"x86_64", "aarch64"}
NoBuilder == "none"
HostOf(b) == IF b = "aarch64" THEN "x86_64" ELSE NoBuilder

\* package names of the modelled distdirs; NoName is the NULL srcpkg pointer
Names == {"a", "b", "c", "d", "b-devel", "b-dbg", "b-devel-32bit"}
NoName == "null"

BuildKeys == Names \X Builders
\* the NULL build pointer (end of the work list, empty job slot)
NoBuild == <<NoName, NoBuilder>>

(***************************************************************************)
(* The distdirs (srcpkgs/ trees) the model runs on.  Each gives the kind   *)
(* of srcpkgs/<name> (dir, link or absent), the target of a link, and what *)
(* `xbps-src dbulk-dump <name>` prints for a template: the lists under     *)
(* hostmakedepends, makedepends+depends (both target deps) and             *)
(* subpackages.  targets is argv.                                          *)
(***************************************************************************)
NoDeps == [n \in Names |-> <<>>]
NoLinks == [n \in Names |-> NoName]
Dirs(S) == [n \in Names |-> IF n \in S THEN "dir" ELSE "absent"]

Distdir(targets, kind, link, host, targ, sub) ==
    [targets |-> targets, kind |-> kind, link |-> link,
     hostmakedepends |-> host, depends |-> targ, subpackages |-> sub]

\* S1: a single template
WSingle == Distdir(<<"a">>, Dirs({"a"}), NoLinks, NoDeps, NoDeps, NoDeps)
\* S3: a depends on b
WChain == Distdir(<<"a">>, Dirs({"a", "b"}), NoLinks, NoDeps,
                  [NoDeps EXCEPT !["a"] = <<"b">>], NoDeps)
\* two targets sharing one dependency
WShared == Distdir(<<"a", "b">>, Dirs({"a", "b", "c"}), NoLinks, NoDeps,
                   [NoDeps EXCEPT !["a"] = <<"c">>, !["b"] = <<"c">>], NoDeps)
\* the same, the shared dependency given as a target too, first
WSharedFirst == Distdir(<<"c", "a">>, Dirs({"a", "c"}), NoLinks, NoDeps,
                   [NoDeps EXCEPT !["a"] = <<"c">>], NoDeps)
\* a diamond: a -> b, c; b -> d; c -> d
WDiamond == Distdir(<<"a">>, Dirs({"a", "b", "c", "d"}), NoLinks, NoDeps,
                    [NoDeps EXCEPT !["a"] = <<"b", "c">>, !["b"] = <<"d">>,
                                   !["c"] = <<"d">>], NoDeps)
\* S4: a and b depend on each other
WCycle == Distdir(<<"a">>, Dirs({"a", "b"}), NoLinks, NoDeps,
                  [NoDeps EXCEPT !["a"] = <<"b">>, !["b"] = <<"a">>], NoDeps)
\* the same with both given as targets
WCycleBoth == Distdir(<<"a", "b">>, Dirs({"a", "b"}), NoLinks, NoDeps,
                  [NoDeps EXCEPT !["a"] = <<"b">>, !["b"] = <<"a">>], NoDeps)
\* a cycle member with another dependency listed before the cyclic one
WCycleExtra == Distdir(<<"a">>, Dirs({"a", "b", "c"}), NoLinks, NoDeps,
                  [NoDeps EXCEPT !["a"] = <<"c", "b">>, !["b"] = <<"a">>], NoDeps)
\* the same dependency listed twice (makedepends and depends)
WDup == Distdir(<<"a">>, Dirs({"a", "b"}), NoLinks, NoDeps,
                [NoDeps EXCEPT !["a"] = <<"b", "b">>], NoDeps)
\* b builds the subpackage b-devel (a symlink to b); a depends on both names
WSub == Distdir(<<"a">>,
                [Dirs({"a", "b"}) EXCEPT !["b-devel"] = "link"],
                [NoLinks EXCEPT !["b-devel"] = "b"], NoDeps,
                [NoDeps EXCEPT !["a"] = <<"b", "b-devel">>],
                [NoDeps EXCEPT !["b"] = <<"b-devel">>])
\* a depends on the subpackage name only
WSubOnly == Distdir(<<"a">>,
                [Dirs({"a", "b"}) EXCEPT !["b-devel"] = "link"],
                [NoLinks EXCEPT !["b-devel"] = "b"], NoDeps,
                [NoDeps EXCEPT !["a"] = <<"b-devel">>],
                [NoDeps EXCEPT !["b"] = <<"b-devel">>])
\* a needs b on the host and for the target
WCross == Distdir(<<"a">>, Dirs({"a", "b"}), NoLinks,
                  [NoDeps EXCEPT !["a"] = <<"b">>],
                  [NoDeps EXCEPT !["a"] = <<"b">>], NoDeps)

\* three independent targets
WIndep == Distdir(<<"a", "b", "c">>, Dirs({"a", "b", "c"}), NoLinks,
                  NoDeps, NoDeps, NoDeps)

\* SYM: the target is the alias b-devel, a symlink to b
WAlias == Distdir(<<"b-devel">>,
                [Dirs({"b"}) EXCEPT !["b-devel"] = "link"],
                [NoLinks EXCEPT !["b-devel"] = "b"], NoDeps, NoDeps,
                [NoDeps EXCEPT !["b"] = <<"b-devel">>])
\* the target is b-dbg, which has no srcpkgs entry of its own
WDbg == Distdir(<<"b-dbg">>, Dirs({"b"}), NoLinks, NoDeps, NoDeps, NoDeps)
\* the targets are b and b-devel-32bit, which strips to the symlink b-devel
WDeriv == Distdir(<<"b", "b-devel-32bit">>,
                [Dirs({"b"}) EXCEPT !["b-devel"] = "link"],
                [NoLinks EXCEPT !["b-devel"] = "b"], NoDeps, NoDeps,
                [NoDeps EXCEPT !["b"] = <<"b-devel">>,
                               !["b-devel"] = <<"b-devel">>])
\* a depends on b and on c, and srcpkgs/c does not exist
WMissing == Distdir(<<"a">>, Dirs({"a", "b"}), NoLinks, NoDeps,
                    [NoDeps EXCEPT !["a"] = <<"b", "c">>], NoDeps)
\* the same with srcpkgs/c a FIFO: lstat succeeds, the mode has neither
\* a bit of S_IFLNK nor S_IFDIR
WOther == Distdir(<<"a">>, [Dirs({"a", "b"}) EXCEPT !["c"] = "other"], NoLinks,
                  NoDeps, [NoDeps EXCEPT !["a"] = <<"b", "c">>], NoDeps)

Distdirs == <<WSingle, WChain, WShared, WSharedFirst, WDiamond, WCycle,
              WCycleBoth, WCycleExtra, WDup, WSub, WCross, WIndep, WSubOnly,
              WAlias, WDbg, WDeriv, WMissing, WOther>>


(***************************************************************************)
(* State.                                                                  *)
(*   cfg       the command line and the toolchain's choice where the code  *)
(*             leaves the outcome open: distdir, maxjobs (-j), dryrun (-n) *)
(*   fs        the filesystem: template/link mtimes, deps/ and logs/       *)
(*   pkgnames  struct pkgname by name        builds  struct build by key   *)
(*   work      head of the work list         numtotal                      *)
(*   pc, argi  position of main(): enrolling argv[argi], in build(), done  *)
(*   jobs, next, numjobs, numfinished, numfail: locals/statics of build()  *)
(*   hist      history of the run: what was started, what succeeded        *)
(***************************************************************************)
VARIABLES cfg, fs, pkgnames, builds, work, numtotal, pc, argi,
          jobs, next, numjobs, numfinished, numfail, hist, reader

vars == <<cfg, fs, pkgnames, builds, work, numtotal, pc, argi,
          jobs, next, numjobs, numfinished, numfail, hist, reader>>

\* reader is the state of one call of readdeps on a dep file taken line by
\* line (specification SpecReaddeps); in the run of the scheduler the dep
\* files are those xbps-src wrote and loaddeps takes their lists whole
NoReader == [status |-> "none"]

\* a file that does not exist (stat fails with ENOENT)
NoFile == MTIME_MISSING

\* mkpkgname: a zeroed struct pkgname with mtime = MTIME_UNKNOWN
NewPkgname ==
    [mtime |-> MTIME_UNKNOWN, srcpkg |-> NoName, dirty |-> FALSE, use |-> <<>>]

\* a build before mkbuild (made = FALSE) and as mkbuild leaves it; passes
\* counts how often the build went through the enrollment body (line 839)
NewBuild ==
    [made |-> FALSE, flags |-> {}, nblock |-> 0, passes |-> 0,
     depmtime |-> MTIME_UNKNOWN, deperrmtime |-> MTIME_UNKNOWN,
     logmtime |-> MTIME_UNKNOWN, logerrmtime |-> MTIME_UNKNOWN,
     hostdeps |-> <<>>, targetdeps |-> <<>>, subpkgs |-> <<>>,
     worknext |-> NoBuild]

\* the graph the enrollment works on: the process-global tables
Graph(pn, bs, wk, nt, status) ==
    [pkgnames |-> pn, builds |-> bs, work |-> wk, numtotal |-> nt,
     status |-> status]

\* the read-only surroundings of an enrollment
Env(c, f) == [w |-> Distdirs[c.distdir], fs |-> f, cfg |-> c]

mkbuild(G, k) ==
    IF G.builds[k].made THEN G ELSE [G EXCEPT !.builds[k].made = TRUE]

\* a push that puts the build below the head of the work list
queue_below(G, k) ==
    IF G.work = NoBuild
    THEN [G EXCEPT !.builds[k].worknext = G.work, !.work = k]
    ELSE [G EXCEPT !.builds[k].worknext = G.builds[G.work].worknext,
                   !.builds[G.work].worknext = k]

\* queue: push on the front of the work list
queue(G, k) ==
    [G EXCEPT !.builds[k].worknext = G.work, !.work = k]

\* the -dbg / -32bit names of the model and the name each strips to
StripSuffix == [n \in {"b-dbg", "b-devel-32bit"} |->
                   IF n = "b-dbg" THEN "b" ELSE "b-devel"]
IsDerivative(n) == n \in DOMAIN StripSuffix

RECURSIVE pkgnamestat(_, _, _)
pkgnamestat(G, E, n) ==
    LET G1 == [G EXCEPT !.pkgnames[n].mtime = MTIME_MISSING]
        kind == E.w.kind[n]
    IN  IF kind = "absent" THEN
            IF IsDerivative(n) THEN
                LET s == StripSuffix[n]
                    G2 == [G1 EXCEPT !.pkgnames[n].srcpkg = s]
                    G3 == IF G2.pkgnames[s].mtime = MTIME_UNKNOWN
                          THEN pkgnamestat(G2, E, s) ELSE G2
                IN  IF G3.status # "ok" THEN G3
                    ELSE [G3 EXCEPT !.pkgnames[n].mtime = G3.pkgnames[s].mtime]
            ELSE [G1 EXCEPT !.status = "exit"]
        ELSE IF kind = "link" THEN
            LET G2 == [G1 EXCEPT !.pkgnames[n].mtime = E.fs.mtime[n]]
            IN  IF G2.pkgnames[n].srcpkg # NoName THEN G2
                ELSE LET t == E.w.link[n]
                         G3 == [G2 EXCEPT !.pkgnames[n].srcpkg = t]
                     IN  IF G3.pkgnames[t].mtime = MTIME_UNKNOWN
                         THEN pkgnamestat(G3, E, t) ELSE G3
        ELSE IF kind = "dir" THEN
            [G1 EXCEPT !.pkgnames[n].mtime = E.fs.mtime[n]]
        ELSE G1

depstat(G, E, k) ==
    [G EXCEPT !.builds[k].depmtime = E.fs.dep[k],
              !.builds[k].deperrmtime = E.fs.deperr[k]]

\* every dep file of the model carries version and revision
logstat(G, E, k) ==
    [G EXCEPT !.builds[k].logmtime = E.fs.log[k],
              !.builds[k].logerrmtime = E.fs.logerr[k]]

\* pkgnameuse for every element of a dependency list, in file order
RECURSIVE pkgnameuse(_, _, _, _)
pkgnameuse(pn, deps, i, k) ==
    IF i > Len(deps) THEN pn
    ELSE pkgnameuse([pn EXCEPT ![deps[i]].use = Append(@, k)], deps, i + 1, k)

\* loaddeps with readdeps: the lists of the dep file are appended to the
\* build, each dependency name gets a use edge back to the build.
\* readdeps ends without a return statement, so the value loaddeps compares
\* with -1 is whatever the build leaves in the register: cfg.readdeps.
loaddeps(G, E, k) ==
    IF FLAG_DEPS \in G.builds[k].flags THEN G
    ELSE IF E.fs.dep[k] = NoFile THEN [G EXCEPT !.status = "exit"]
    ELSE IF E.cfg.readdeps = -1 THEN [G EXCEPT !.status = "exit"]
    ELSE LET h == E.w.hostmakedepends[k[1]]
             t == E.w.depends[k[1]]
             s == E.w.subpackages[k[1]]
         IN  [G EXCEPT !.builds[k].hostdeps = h,
                       !.builds[k].targetdeps = t,
                       !.builds[k].subpkgs = s,
                       !.builds[k].flags = @ \cup {FLAG_DEPS},
                       !.pkgnames = pkgnameuse(pkgnameuse(@, h, 1, k), t, 1, k)]

\* lines 930-934: the owning name and every subpackage name become dirty
RECURSIVE markdirty(_, _, _)
markdirty(pn, names, i) ==
    IF i > Len(names) THEN pn
    ELSE markdirty([pn EXCEPT ![names[i]].dirty = TRUE], names, i + 1)

\* what _buildadd returns for a build that is already enrolled (line 837)
EnrolledRv(flags) == {}

\* the test of line 937: a dirty, unskipped build is queued at enrollment
ReadyAtEnroll(nblock) == nblock = 0

\* the err: label of _buildadd (lines 927-942) and its return value
buildadd_err(G, k) ==
    LET b == G.builds[k]
        G1 == [G EXCEPT !.pkgnames =
                  markdirty(@, <<k[1]>> \o b.subpkgs, 1)]
        G2 == IF ReadyAtEnroll(b.nblock) THEN queue(G1, k) ELSE G1
        G3 == IF FLAG_DIRTY \notin b.flags THEN G
              ELSE IF FLAG_SKIP \in b.flags THEN G1
              ELSE [G2 EXCEPT !.numtotal = @ + 1]
    IN  [G |-> G3, rv |-> b.flags]

\* the out: label: FLAG_CYCLE is cleared, then err:
buildadd_out(G, k) ==
    buildadd_err([G EXCEPT !.builds[k].flags = @ \ {FLAG_CYCLE}], k)

\* the same, a log older than the template counting as missing
LogVerdict_newer(logmtime, logerrmtime, mtime) ==
    IF logmtime < mtime
    THEN IF logerrmtime = MTIME_MISSING THEN "build"
         ELSE IF logerrmtime < mtime THEN "build"
         ELSE "skip"
    ELSE "keep"

\* the same, a missing log always leading to a build
LogVerdict_retry(logmtime, logerrmtime, mtime) ==
    IF logmtime = MTIME_MISSING THEN "build" ELSE "keep"

\* lines 879-896: does a build with loaded deps need building.
\* "build", "skip" (template unchanged since the previous error) or "keep"
LogVerdict(logmtime, logerrmtime, mtime) ==
    IF logmtime = MTIME_MISSING
    THEN IF logerrmtime = MTIME_MISSING THEN "build"
         ELSE IF logerrmtime < mtime THEN "build"
         ELSE "skip"
    ELSE "keep"

\* a return of _buildadd after exit(1) or a crash: the value is never used
Gone(G) == [G |-> G, rv |-> {}]

RECURSIVE _buildadd(_, _, _, _), deploop(_, _, _, _, _, _)

\* the loops of lines 900-910 and 912-922 from index i on
deploop(G, E, k, deps, i, depbuilder) ==
    IF i > Len(deps) THEN [G |-> G, cycle |-> FALSE]
    ELSE LET r == _buildadd(G, E, deps[i], depbuilder)
         IN  IF r.G.status # "ok" THEN [G |-> r.G, cycle |-> FALSE]
             ELSE IF FLAG_CYCLE \in r.rv
             THEN [G |-> [r.G EXCEPT !.builds[k].flags =
                                        @ \cup {FLAG_SKIP, FLAG_DIRTY}],
                   cycle |-> TRUE]
             ELSE deploop(IF FLAG_DIRTY \in r.rv
                          THEN [r.G EXCEPT !.builds[k].nblock = (@ + 1) % SIZE_MOD]
                          ELSE r.G,
                          E, k, deps, i + 1, depbuilder)

\* lines 912-925: after the target dependencies
buildadd_end(r, k) ==
    IF r.G.status # "ok" THEN Gone(r.G)
    ELSE IF r.cycle THEN buildadd_err(r.G, k)
    ELSE buildadd_out(r.G, k)

\* lines 900-911: after the host dependencies, the target dependencies
\* are enrolled under the build's own builder
buildadd_targetdeps(r, E, k) ==
    IF r.G.status # "ok" THEN Gone(r.G)
    ELSE IF r.cycle THEN buildadd_err(r.G, k)
    ELSE buildadd_end(deploop(r.G, E, k, r.G.builds[k].targetdeps, 1, k[2]), k)

\* lines 898-899: nblock = 0, the host dependencies are enrolled under the
\* host builder
buildadd_deps(G, E, k) ==
    buildadd_targetdeps(
        deploop([G EXCEPT !.builds[k].nblock = 0], E, k,
                G.builds[k].hostdeps, 1,
                IF HostOf(k[2]) # NoBuilder THEN HostOf(k[2]) ELSE k[2]),
        E, k)

\* lines 877-896: with the deps loaded, the log decides
buildadd_log(G, E, k) ==
    LET verdict == LogVerdict(G.builds[k].logmtime, G.builds[k].logerrmtime,
                              G.pkgnames[k[1]].mtime)
    IN  IF verdict = "skip"
        THEN buildadd_out([G EXCEPT !.builds[k].flags =
                              @ \cup {FLAG_SKIP, FLAG_DIRTY}], k)
        ELSE IF verdict = "build"
        THEN buildadd_deps([G EXCEPT !.builds[k].flags = @ \cup {FLAG_DIRTY}], E, k)
        ELSE buildadd_deps(G, E, k)

\* line 876: loaddeps (which may exit), then logstat
buildadd_loaded(G, E, k) ==
    IF G.status # "ok" THEN Gone(G)
    ELSE buildadd_log(logstat(G, E, k), E, k)

\* the same, an outdated dep file still read for its dependency lists
buildadd_depfile_stale(G, E, k) ==
    IF G.builds[k].depmtime < G.pkgnames[k[1]].mtime
    THEN IF G.builds[k].depmtime # MTIME_MISSING
         THEN buildadd_loaded(loaddeps(G, E, k), E, k)
         ELSE IF G.builds[k].deperrmtime < G.pkgnames[k[1]].mtime
         THEN buildadd_out([G EXCEPT !.builds[k].flags = @ \cup {FLAG_DIRTY},
                                     !.builds[k].nblock = 0], k)
         ELSE buildadd_out([G EXCEPT !.builds[k].flags =
                               @ \cup {FLAG_SKIP, FLAG_DIRTY}], k)
    ELSE buildadd_loaded(loaddeps(G, E, k), E, k)

\* lines 855-876: dep file missing or older than the template
buildadd_depfile(G, E, k) ==
    IF G.builds[k].depmtime < G.pkgnames[k[1]].mtime
    THEN IF G.builds[k].deperrmtime < G.pkgnames[k[1]].mtime
         THEN buildadd_out([G EXCEPT !.builds[k].flags = @ \cup {FLAG_DIRTY},
                                     !.builds[k].nblock = 0], k)
         ELSE buildadd_out([G EXCEPT !.builds[k].flags =
                               @ \cup {FLAG_SKIP, FLAG_DIRTY}], k)
    ELSE buildadd_loaded(loaddeps(G, E, k), E, k)

\* lines 839-853: the enrollment body sets CYCLE|WORK and clears DIRTY
buildadd_body(G, E, k) ==
    buildadd_depfile(
        IF G.builds[k].depmtime = MTIME_UNKNOWN THEN depstat(G, E, k) ELSE G,
        E, k)

\* lines 830-840: the build is found or made
buildadd_build(G, E, k) ==
    IF FLAG_CYCLE \in G.builds[k].flags
    THEN buildadd_err([G EXCEPT !.builds[k].flags =
                          @ \cup {FLAG_SKIP, FLAG_DIRTY}], k)
    ELSE IF FLAG_WORK \in G.builds[k].flags
    THEN [G |-> G, rv |-> EnrolledRv(G.builds[k].flags)]
    ELSE buildadd_body([G EXCEPT !.builds[k].flags =
                           (@ \cup {FLAG_CYCLE, FLAG_WORK}) \ {FLAG_DIRTY},
                                 !.builds[k].passes = @ + 1], E, k)

\* lines 810-828: after pkgnamestat (when the mtime was unknown)
buildadd_stat(G, E, n, builder, wasunknown) ==
    IF G.status # "ok" THEN Gone(G)
    ELSE IF wasunknown /\ G.pkgnames[n].mtime = MTIME_MISSING
            /\ E.cfg.nullwrite = "crash"
    THEN \* line 813 writes through the NULL build pointer
         Gone([G EXCEPT !.status = "crash"])
    ELSE buildadd_build(
            mkbuild(G, <<IF G.pkgnames[n].srcpkg # NoName
                         THEN G.pkgnames[n].srcpkg ELSE n, builder>>),
            E,
            <<IF G.pkgnames[n].srcpkg # NoName
              THEN G.pkgnames[n].srcpkg ELSE n, builder>>)

_buildadd(G, E, n, builder) ==
    IF G.status # "ok" THEN Gone(G)
    ELSE buildadd_stat(IF G.pkgnames[n].mtime = MTIME_UNKNOWN
                       THEN pkgnamestat(G, E, n) ELSE G,
                       E, n, builder, G.pkgnames[n].mtime = MTIME_UNKNOWN)

\* buildadd: the return value is only compared with ELOOP to end the cycle
\* trace with a newline; the graph is what _buildadd left
buildadd(G, E, n, builder) == _buildadd(G, E, n, builder).G


(***************************************************************************)
(* Completion propagation.                                                 *)
(***************************************************************************)
\* line 638: only the edges of builds enrolled in this run are followed
EdgeUsed(flags) == FLAG_WORK \in flags

\* line 640: --build->nblock == 0
Unblocked(nblock) == nblock = 0

RECURSIVE pkgnamedone_use(_, _, _)
pkgnamedone_use(G, use, i) ==
    IF i > Len(use) THEN G
    ELSE LET k == use[i]
             nb == (G.builds[k].nblock - 1) % SIZE_MOD
             G1 == [G EXCEPT !.builds[k].nblock = nb]
         IN  IF ~EdgeUsed(G.builds[k].flags) THEN pkgnamedone_use(G, use, i + 1)
             ELSE pkgnamedone_use(IF Unblocked(nb) THEN queue(G1, k) ELSE G1,
                                  use, i + 1)

pkgnamedone(G, n) ==
    pkgnamedone_use([G EXCEPT !.pkgnames[n].dirty = FALSE], G.pkgnames[n].use, 1)

\* pkgnamedone for the owning name, then for each subpackage (lines 685-688
\* and 981-984)
RECURSIVE pkgnamedone_all(_, _, _)
pkgnamedone_all(G, names, i) ==
    IF i > Len(names) THEN G
    ELSE pkgnamedone_all(pkgnamedone(G, names[i]), names, i + 1)

\* the propagation without the loop over the subpackages
propagate_owner(G, k) == pkgnamedone_all(G, <<k[1]>>, 1)

propagate(G, k) == pkgnamedone_all(G, <<k[1]>> \o G.builds[k].subpkgs, 1)

(***************************************************************************)
(* The filesystem before the first run.  Every template (and link) has     *)
(* mtime 2.  Per source the caches are in one of these states, the same    *)
(* under both builders:                                                    *)
(*   none   no dep file, no log                                            *)
(*   nolog  a fresh dep file, no log                                       *)
(*   built  a fresh dep file and a log                                     *)
(*   stale  a dep file older than the template (mtime 1) and a log         *)
(***************************************************************************)
CacheStates == {"none", "nolog", "built", "stale"}

DepTime(c) == CASE c = "none" -> NoFile [] c = "stale" -> 1 [] OTHER -> 2
LogTime(c) == CASE c = "built" -> 2 [] c = "stale" -> 1 [] OTHER -> NoFile

InitFs(w, cache) ==
    [now    |-> 2,
     mtime  |-> [n \in Names |-> IF w.kind[n] = "absent" THEN NoFile ELSE 2],
     dep    |-> [k \in BuildKeys |-> DepTime(cache[k[1]])],
     deperr |-> [k \in BuildKeys |-> NoFile],
     log    |-> [k \in BuildKeys |-> LogTime(cache[k[1]])],
     logerr |-> [k \in BuildKeys |-> NoFile],
     deptmp |-> [k \in BuildKeys |-> FALSE],
     errtmp |-> [k \in BuildKeys |-> FALSE],
     logtmp |-> [k \in BuildKeys |-> FALSE]]

Caches(w) ==
    {c \in [Names -> CacheStates] :
        \A n \in Names : w.kind[n] # "dir" => c[n] = "none"}

\* the history of one run
NewHist(run, touched, allok, clean) ==
    [run |-> run, touched |-> touched, allok |-> allok, clean |-> clean,
     extracted |-> {}, started |-> {}, succeeded |-> {}, failed |-> {},
     dropped |-> {}, popped |-> {}, children |-> {}]

\* the process state at the start of main()
Startup(pn, bs, wk, nt, p, a, j, nx, nj, nf, nfl) ==
    /\ pn = [n \in Names |-> NewPkgname]
    /\ bs = [k \in BuildKeys |-> NewBuild]
    /\ wk = NoBuild
    /\ nt = 0
    /\ p = "enroll"
    /\ a = 1
    /\ j = <<>>
    /\ nx = 0
    /\ nj = 0
    /\ nf = 0
    /\ nfl = 0

Init ==
    /\ cfg \in [distdir : 1..Len(Distdirs), maxjobs : 0..MaxJobs,
                dryrun : BOOLEAN, readdeps : {0, -1},
                nullwrite : {"crash", "continue"}]
    /\ cfg.nullwrite = "continue" =>
          \E n \in Names : Distdirs[cfg.distdir].kind[n] = "other"
    /\ \E c \in Caches(Distdirs[cfg.distdir]) : fs = InitFs(Distdirs[cfg.distdir], c)
    /\ hist = NewHist(1, NoName, TRUE, TRUE)
    /\ Startup(pkgnames, builds, work, numtotal, pc, argi,
               jobs, next, numjobs, numfinished, numfail)
    /\ reader = NoReader

TheGraph == Graph(pkgnames, builds, work, numtotal, "ok")

\* the graph is written back; exit(1) or a crash ends the process
SetGraph(G, pcok) ==
    /\ pkgnames' = G.pkgnames
    /\ builds' = G.builds
    /\ work' = G.work
    /\ numtotal' = G.numtotal
    /\ pc' = IF G.status = "ok" THEN pcok ELSE G.status

(***************************************************************************)
(* main(): buildadd(mkpkgname(argv[i]), cross) for each argument           *)
(***************************************************************************)
Enroll ==
    /\ pc = "enroll"
    /\ argi <= Len(Distdirs[cfg.distdir].targets)
    /\ SetGraph(buildadd(TheGraph, Env(cfg, fs),
                         Distdirs[cfg.distdir].targets[argi], "aarch64"), "enroll")
    /\ argi' = argi + 1
    /\ UNCHANGED <<reader, cfg, fs, jobs, next, numjobs, numfinished, numfail, hist>>

\* the same with every slot's next index pointing at the slot itself
BuildInit_self ==
    /\ pc = "enroll"
    /\ argi > Len(Distdirs[cfg.distdir].targets)
    /\ pc' = "build"
    /\ jobs' = [i \in 0..(cfg.maxjobs - 1) |->
                  [next |-> i, build |-> NoBuild, pid |-> 0, failed |-> FALSE]]
    /\ next' = 0
    /\ numjobs' = 0
    /\ UNCHANGED <<reader, cfg, fs, pkgnames, builds, work, numtotal, argi,
                   numfinished, numfail, hist>>

\* build(): calloc of the job slots and the initial free list
BuildInit ==
    /\ pc = "enroll"
    /\ argi > Len(Distdirs[cfg.distdir].targets)
    /\ pc' = "build"
    /\ jobs' = [i \in 0..(cfg.maxjobs - 1) |->
                  [next |-> i + 1, build |-> NoBuild, pid |-> 0, failed |-> FALSE]]
    /\ next' = 0
    /\ numjobs' = 0
    /\ UNCHANGED <<reader, cfg, fs, pkgnames, builds, work, numtotal, argi,
                   numfinished, numfail, hist>>

\* the inner loop guard with the comparison off by one
CanStart_le(wk, nj, mj) == wk # NoBuild /\ nj <= mj

\* the guard of the inner while loop (line 975)
CanStart(wk, nj, mj) == wk # NoBuild /\ nj < mj

\* posix_spawn gives the child a pid no live child has
FreshPid == CHOOSE p \in 1..(Cardinality(hist.children) + 1) : p \notin hist.children

\* gendepstart / buildstart open (O_CREAT|O_TRUNC) the temporary files
OpenTmp(f, k, isbuild) ==
    IF isbuild THEN [f EXCEPT !.logtmp[k] = TRUE]
    ELSE [f EXCEPT !.deptmp[k] = TRUE, !.errtmp[k] = TRUE]

\* the inner loop pops the work list and starts a job in the next free slot
Start ==
    /\ pc = "build"
    /\ CanStart(work, numjobs, cfg.maxjobs)
    /\ ~cfg.dryrun
    /\ LET k == work
           isbuild == FLAG_DEPS \in builds[k].flags
       IN  /\ work' = builds[k].worknext
           /\ fs' = OpenTmp(fs, k, isbuild)
           /\ hist' = [hist EXCEPT
                         !.children = @ \cup {FreshPid},
                         !.started = IF isbuild THEN @ \cup {k} ELSE @,
                         !.extracted = IF isbuild THEN @ ELSE @ \cup {k}]
           /\ numjobs' = numjobs + 1
           /\ IF next \in DOMAIN jobs
              THEN /\ jobs' = [jobs EXCEPT ![next].build = k, ![next].failed = FALSE,
                                           ![next].pid = FreshPid]
                   /\ next' = jobs[next].next
                   /\ pc' = pc
              ELSE \* jobs[next] lies outside the array
                   /\ pc' = "crash"
                   /\ UNCHANGED <<jobs, next>>
    /\ UNCHANGED <<reader, cfg, pkgnames, builds, numtotal, argi, numfinished, numfail>>

\* jobstart returns -1 (posix_spawn fails): the build is dropped, the slot
\* is not taken
StartFail ==
    /\ pc = "build"
    /\ CanStart(work, numjobs, cfg.maxjobs)
    /\ ~cfg.dryrun
    /\ LET k == work
       IN  /\ work' = builds[k].worknext
           /\ fs' = OpenTmp(fs, k, FLAG_DEPS \in builds[k].flags)
           /\ numfail' = numfail + 1
           /\ hist' = [hist EXCEPT !.dropped = @ \cup {k}]
           /\ IF next \in DOMAIN jobs
              THEN /\ jobs' = [jobs EXCEPT ![next].build = k, ![next].failed = FALSE]
                   /\ pc' = pc
              ELSE /\ pc' = "crash"
                   /\ UNCHANGED jobs
    /\ UNCHANGED <<reader, cfg, pkgnames, builds, numtotal, argi, next, numjobs,
                   numfinished>>

\* -n: the popped build counts as finished and its completion is propagated
DryRun ==
    /\ pc = "build"
    /\ CanStart(work, numjobs, cfg.maxjobs)
    /\ cfg.dryrun
    /\ LET k == work
           G == [TheGraph EXCEPT !.work = builds[k].worknext]
       IN  SetGraph(propagate(G, k), "build")
    /\ numfinished' = numfinished + 1
    /\ hist' = [hist EXCEPT !.popped = @ \cup {work}]
    /\ UNCHANGED <<reader, cfg, fs, argi, jobs, next, numjobs, numfail>>


(***************************************************************************)
(* Completion of a job: waitpid returns the pid of slot i with a status.   *)
(***************************************************************************)
Statuses == {"exit0", "exit1", "signal"}

\* j->failed after jobdone and gendepdone / builddone looked at the status
Failed(status) == status # "exit0"

\* gendepdone, files: the failure promotes .err.tmp, the success .dep.tmp
gendepdone_fs(f, k, failed) ==
    IF failed
    THEN [f EXCEPT !.deptmp[k] = FALSE, !.errtmp[k] = FALSE, !.deperr[k] = f.now]
    ELSE [f EXCEPT !.errtmp[k] = FALSE, !.deptmp[k] = FALSE, !.dep[k] = f.now]

\* the same with the re-enrollment after a failure too
gendepdone_always(G, c, f, k, failed) ==
    buildadd(depstat([G EXCEPT !.builds[k].flags = @ \ {FLAG_WORK}],
                     Env(c, f), k),
             Env(c, f), k[1], k[2])

\* gendepdone, graph: after a success FLAG_WORK is cleared, the dep files
\* are stat'ed again and the build is enrolled again
gendepdone(G, c, f, k, failed) ==
    IF failed THEN G
    ELSE buildadd(depstat([G EXCEPT !.builds[k].flags = @ \ {FLAG_WORK}],
                          Env(c, f), k),
                  Env(c, f), k[1], k[2])

\* the same with the temporary log always promoted to .log
builddone_fs_log(f, k, failed) ==
    [f EXCEPT !.logtmp[k] = FALSE, !.log[k] = f.now]

\* builddone, files: the temporary log becomes .err or .log
builddone_fs(f, k, failed) ==
    IF failed
    THEN [f EXCEPT !.logtmp[k] = FALSE, !.logerr[k] = f.now]
    ELSE [f EXCEPT !.logtmp[k] = FALSE, !.log[k] = f.now]

\* builddone, graph: a success clears FLAG_DIRTY and propagates
builddone(G, k, failed) ==
    IF failed THEN G
    ELSE propagate([G EXCEPT !.builds[k].flags = @ \ {FLAG_DIRTY}], k)

\* waitpid returns a live child; the first slot holding its pid is completed
\* and put back on the free list (a pid in no slot: waitpid is called again)
Reap ==
    /\ pc = "build"
    /\ ~CanStart(work, numjobs, cfg.maxjobs)
    /\ numjobs # 0
    /\ \E pid \in hist.children, status \in Statuses :
         LET slots == {i \in DOMAIN jobs : jobs[i].pid = pid}
             i == CHOOSE x \in slots : \A y \in slots : x <= y
             k == jobs[i].build
             isbuild == FLAG_DEPS \in builds[k].flags
             failed == Failed(status)
             f == IF isbuild THEN builddone_fs(fs, k, failed)
                  ELSE gendepdone_fs(fs, k, failed)
             G == IF isbuild THEN builddone(TheGraph, k, failed)
                  ELSE gendepdone(TheGraph, cfg, f, k, failed)
         IN  IF slots = {}
             THEN /\ hist' = [hist EXCEPT !.children = @ \ {pid}]
                  /\ UNCHANGED <<fs, pkgnames, builds, work, numtotal, pc,
                                 jobs, next, numjobs, numfinished, numfail>>
             ELSE /\ fs' = f
                  /\ SetGraph(G, "build")
                  /\ numfinished' = numfinished + 1
                  /\ numjobs' = numjobs - 1
                  /\ jobs' = [jobs EXCEPT ![i].next = next, ![i].pid = -1,
                                          ![i].failed = failed]
                  /\ next' = i
                  /\ numfail' = IF failed THEN numfail + 1 ELSE numfail
                  /\ hist' = [hist EXCEPT
                                !.children = @ \ {pid},
                                !.failed = IF failed THEN @ \cup {k} ELSE @,
                                !.succeeded = IF ~failed /\ isbuild
                                              THEN @ \cup {k} ELSE @]
    /\ UNCHANGED <<reader, cfg, argi>>

\* the loop left as soon as the work list is empty
Finish_early ==
    /\ pc = "build"
    /\ work = NoBuild
    /\ pc' = "done"
    /\ UNCHANGED <<reader, cfg, fs, pkgnames, builds, work, numtotal, argi,
                   jobs, next, numjobs, numfinished, numfail, hist>>

\* line 999: nothing can be started and no job is live
Finish ==
    /\ pc = "build"
    /\ ~CanStart(work, numjobs, cfg.maxjobs)
    /\ numjobs = 0
    /\ pc' = "done"
    /\ UNCHANGED <<reader, cfg, fs, pkgnames, builds, work, numtotal, argi,
                   jobs, next, numjobs, numfinished, numfail, hist>>

(***************************************************************************)
(* A second invocation with the same command line on the filesystem the    *)
(* first one left, after at most one template was touched.                 *)
(***************************************************************************)
Touch(f, n) ==
    IF n = NoName THEN f
    ELSE [f EXCEPT !.now = f.now + 1, !.mtime[n] = f.now + 1]

Rerun ==
    /\ pc = "done"
    /\ hist.run = 1
    /\ \E n \in {NoName} \cup {m \in Names : Distdirs[cfg.distdir].kind[m] = "dir"} :
         /\ fs' = Touch(fs, n)
         /\ hist' = NewHist(2, n, hist.failed = {} /\ hist.dropped = {},
                             \A k \in BuildKeys :
                                builds[k].flags \cap {FLAG_DIRTY, FLAG_SKIP} = {})
    /\ Startup(pkgnames', builds', work', numtotal', pc', argi',
               jobs', next', numjobs', numfinished', numfail')
    /\ UNCHANGED <<reader, cfg>>

\* one invocation
Next ==
    \/ Enroll
    \/ BuildInit
    \/ Start
    \/ StartFail
    \/ DryRun
    \/ Reap
    \/ Finish

Spec == Init /\ [][Next]_vars

\* two invocations in a row, on the distdirs of at most two templates and
\* those of three templates with a single target
Templates(w) == {n \in Names : w.kind[n] = "dir"}

InitRerun ==
    /\ Init
    /\ cfg.readdeps = 0
    /\ \/ Cardinality(Templates(Distdirs[cfg.distdir])) <= 2
       \/ /\ Cardinality(Templates(Distdirs[cfg.distdir])) = 3
          /\ Len(Distdirs[cfg.distdir].targets) = 1

NextRerun ==
    \/ Enroll
    \/ BuildInit
    \/ Start
    \/ StartFail
    \/ DryRun
    \/ Reap
    \/ Finish
    \/ Rerun

SpecRerun == InitRerun /\ [][NextRerun]_vars


(***************************************************************************)
(* The claims.                                                             *)
(***************************************************************************)
\* the build a dependency name of build k resolves to under builder b
Owner(n) == IF pkgnames[n].srcpkg # NoName THEN pkgnames[n].srcpkg ELSE n
HostBuilder(b) == IF HostOf(b) # NoBuilder THEN HostOf(b) ELSE b

\* the builds that build k lists as host or target dependencies
DepBuilds(k) ==
    {<<Owner(builds[k].hostdeps[i]), HostBuilder(k[2])>> :
        i \in 1..Len(builds[k].hostdeps)}
    \cup {<<Owner(builds[k].targetdeps[i]), k[2]>> :
        i \in 1..Len(builds[k].targetdeps)}

\* the dependencies of k that are enrolled, dirty and have not succeeded
Unfinished(k) ==
    {d \in DepBuilds(k) :
        /\ FLAG_WORK \in builds[d].flags
        /\ FLAG_DIRTY \in builds[d].flags
        /\ d \notin hist.succeeded}

\* C1: a package build is never started while a build it lists as a host
\* or target dependency is enrolled, dirty and has not completed
\* successfully.
C1_NeverStartedBeforeDeps ==
    [][\A k \in BuildKeys :
          (k \in hist'.started /\ k \notin hist.started) => Unfinished(k) = {}]_vars


\* C2: the number of live child processes (spawned and not yet reaped) is
\* at most maxjobs, for every maxjobs >= 0 and every order of child exits.
C2_AtMostMaxjobsAlive == Cardinality(hist.children) <= cfg.maxjobs

\* the pool is full (two children live) while a ready build waits
C2_Witness ==
    /\ cfg.maxjobs = 2
    /\ Cardinality(hist.children) = 2
    /\ work # NoBuild


\* the strict prerequisites of build k: the builds its dependency lists
\* reach, directly or through other builds
RECURSIVE Reach(_)
Reach(S) ==
    LET T == S \cup UNION {DepBuilds(d) : d \in S}
    IN  IF T = S THEN S ELSE Reach(T)

Prereqs(k) == Reach(DepBuilds(k))

\* a job of the build failed or could not be started
JobFailed(k) == k \in hist.failed \cup hist.dropped

\* C3: every build that is DIRTY and not SKIP eventually completes
\* successfully unless a strict prerequisite failed or is SKIP.  Every run
\* ends, so the claim is about the end of the run: a build that is still
\* DIRTY and not SKIP then (with jobs allowed and spawned for real) has lost
\* a job of its own, or has a strict prerequisite that failed or is SKIP.
C3_DirtyEventuallyDone ==
    (pc = "done" /\ cfg.maxjobs > 0 /\ ~cfg.dryrun) =>
        \A k \in BuildKeys :
            (builds[k].made /\ FLAG_DIRTY \in builds[k].flags
                            /\ FLAG_SKIP \notin builds[k].flags)
            => \/ JobFailed(k)
               \/ \E d \in Prereqs(k) :
                     JobFailed(d) \/ FLAG_SKIP \in builds[d].flags


\* the builds in the work list, front first
RECURSIVE WorkFrom(_, _)
WorkFrom(k, n) ==
    IF k = NoBuild \/ n = 0 THEN <<>>
    ELSE <<k>> \o WorkFrom(builds[k].worknext, n - 1)

WorkList == WorkFrom(work, Cardinality(BuildKeys) + 1)
Queued(k) == \E i \in 1..Len(WorkList) : WorkList[i] = k

\* C4: once a build is enrolled with its dependency lists loaded, nblock is
\* the number of distinct dependency builds that are in the work set and
\* still have to complete successfully (enrolled, dirty, not succeeded).
C4_NblockCountsUnfinishedDeps ==
    \A k \in BuildKeys :
        (/\ pc \in {"enroll", "build", "done"}
         /\ builds[k].made
         /\ FLAG_WORK \in builds[k].flags
         /\ FLAG_DEPS \in builds[k].flags
         /\ FLAG_SKIP \notin builds[k].flags)
        => builds[k].nblock = Cardinality(Unfinished(k))

\* C5: after a job of build P failed, no build that depends on P is queued
\* or started.
C5_DependentsOfFailedStayBlocked ==
    [][\A k \in BuildKeys :
          (\/ k \in hist'.started /\ k \notin hist.started
           \/ k \in hist'.extracted /\ k \notin hist.extracted
           \/ Queued(k)' /\ ~Queued(k))
          => DepBuilds(k)' \cap hist.failed = {}]_vars

\* C6: a build on a dependency cycle ends the run SKIP|DIRTY and no package
\* build is ever spawned for it.
OnCycle(k) == builds[k].made /\ k \in Prereqs(k)

C6_CycleMembersSkipped ==
    \A k \in BuildKeys :
        OnCycle(k) =>
            /\ k \notin hist.started
            /\ pc = "done" => {FLAG_SKIP, FLAG_DIRTY} \subseteq builds[k].flags


\* the builds counted in numtotal whose pending job never finished: still
\* dirty, not skipped, and neither failed nor popped by a dry run
Unrun ==
    {k \in BuildKeys :
        /\ builds[k].made
        /\ FLAG_WORK \in builds[k].flags
        /\ FLAG_DIRTY \in builds[k].flags
        /\ FLAG_SKIP \notin builds[k].flags
        /\ k \notin hist.failed \cup hist.popped}

\* C9: when a run terminates normally numfinished is numtotal minus the
\* counted builds that never ran, and so never exceeds numtotal.
C9_FinishedIsTotalMinusUnrun ==
    pc = "done" =>
        /\ numfinished <= numtotal
        /\ numfinished = numtotal - Cardinality(Unrun)


\* the names whose users are told when build k completes, and how many use
\* edges lead from them to build u
DoneNames(k) == <<k[1]>> \o builds[k].subpkgs
UseCount(u, k) ==
    Cardinality({p \in (1..Len(DoneNames(k))) \X (1..Cardinality(BuildKeys) * 2) :
                    /\ p[2] <= Len(pkgnames[DoneNames(k)[p[1]]].use)
                    /\ pkgnames[DoneNames(k)[p[1]]].use[p[2]] = u})

\* a step of a dry run: nothing is spawned, and a pop counts the build as
\* finished and takes one off nblock of each enrolled user per use edge of
\* the owning name and of each subpackage, queueing the user at zero
DryRunStep ==
    /\ numjobs' = 0
    /\ hist'.children = {}
    /\ hist'.started = {} /\ hist'.extracted = {}
    /\ fs' = fs
    /\ (pc = "build" /\ pc' = "build") =>
          /\ numfinished' = numfinished + 1
          /\ hist'.popped = hist.popped \cup {work}
          /\ \A u \in BuildKeys :
                LET c == IF FLAG_WORK \in builds[u].flags
                         THEN UseCount(u, work) ELSE 0
                IN  /\ builds'[u].nblock = (builds[u].nblock - c) % SIZE_MOD
                    /\ builds[u].nblock \in 1..c => Queued(u)'

\* C10: in a dry run no subprocess is spawned, every popped build counts as
\* completed with the completion propagated to the users of its name and of
\* its subpackages, and with at least one job slot the run ends with an
\* empty work queue.
C10_DryRunPropagates ==
    [][cfg.dryrun =>
          /\ DryRunStep
          /\ (pc' = "done" /\ cfg.maxjobs >= 1) => work' = NoBuild]_vars

\* a dry run popped a build with a subpackage and thereby queued and popped
\* the build that depends on the subpackage name, and ended
C10_Witness ==
    /\ cfg.dryrun
    /\ pc = "done"
    /\ work = NoBuild
    /\ \E k \in hist.popped, u \in hist.popped :
          /\ builds[k].subpkgs # <<>>
          /\ k \in DepBuilds(u)
          /\ k[1] \notin {builds[u].targetdeps[i] : i \in 1..Len(builds[u].targetdeps)}

\* C10 as stated: the same for every number of job slots
C10_DryRunEndsWithEmptyQueue ==
    [][cfg.dryrun =>
          /\ DryRunStep
          /\ pc' = "done" => work' = NoBuild]_vars


\* C7: after a run in which every job succeeded, a second run on the files
\* the first one left enrolls no dirty build: numtotal is 0 and nothing is
\* started.
C7_RerunEnrollsNothing ==
    (/\ hist.run = 2
     /\ hist.allok
     /\ hist.touched = NoName
     /\ cfg.maxjobs >= 1
     /\ ~cfg.dryrun)
    => /\ numtotal = 0
       /\ hist.extracted = {}
       /\ hist.started = {}

\* the builds of the touched template, and the files the second run wrote
Touched == {k \in BuildKeys : k[1] = hist.touched}
DepWritten(k) == fs.dep[k] = fs.now \/ fs.deperr[k] = fs.now
LogWritten(k) == fs.log[k] = fs.now \/ fs.logerr[k] = fs.now
RerunOk ==
    /\ pc = "done"
    /\ cfg.maxjobs >= 1
    /\ ~cfg.dryrun
    /\ hist.failed = {} /\ hist.dropped = {}

\* C8: after a run that left nothing dirty, touching one template and
\* running again regenerates the dep cache of that source only and starts no
\* package build: its log (same version and revision) is kept, and no other
\* source is dep-extracted or rebuilt.
C8_TouchRegeneratesDepOnly ==
    (hist.run = 2 /\ hist.clean /\ hist.touched # NoName)
    => /\ hist.started = {}
       /\ hist.extracted \subseteq Touched
       /\ \A k \in BuildKeys : ~LogWritten(k)
       /\ \A k \in BuildKeys \ Touched : ~DepWritten(k)
       /\ RerunOk => \A k \in Touched :
                        builds[k].made => /\ fs.dep[k] = fs.now
                                          /\ fs.log[k] \notin {NoFile, fs.now}

\* the second run ended after it regenerated the dep cache of the touched
\* template, which has a dependency that was left alone
C8_Witness ==
    /\ hist.run = 2 /\ hist.clean /\ hist.touched # NoName
    /\ RerunOk
    /\ \E k \in Touched :
          /\ k \in hist.extracted
          /\ fs.dep[k] = fs.now
          /\ DepBuilds(k) # {}
          /\ \A d \in DepBuilds(k) : builds[d].made /\ ~DepWritten(d)

\* C8 as stated: the package of the touched template is rebuilt too, so
\* that its log is regenerated
C8_TouchRebuildsPackage ==
    (hist.run = 2 /\ hist.clean /\ hist.touched # NoName)
    => /\ hist.extracted \subseteq Touched
       /\ hist.started \subseteq Touched
       /\ \A k \in BuildKeys \ Touched : ~DepWritten(k) /\ ~LogWritten(k)
       /\ RerunOk => \A k \in Touched :
                        builds[k].made => /\ fs.dep[k] = fs.now
                                          /\ fs.log[k] = fs.now


\* C11: a name probed as having no template (pkgnamestat left its mtime
\* MTIME_MISSING) does not end the run, and no job is started for it.
C11_MissingTemplateDoesNotAbort ==
    \A n \in Names :
        (cfg.readdeps = 0 /\ pkgnames[n].mtime = MTIME_MISSING)
        => /\ pc \notin {"exit", "crash"}
           /\ \A b \in Builders : <<n, b>> \notin hist.started \cup hist.extracted


\* the source template a name ultimately resolves to: symlinks and stripped
\* suffixes are followed to the end
RECURSIVE Resolve(_, _)
Resolve(n, fuel) ==
    LET w == Distdirs[cfg.distdir]
    IN  IF fuel = 0 THEN n
        ELSE IF w.kind[n] = "link" THEN Resolve(w.link[n], fuel - 1)
        ELSE IF w.kind[n] = "absent" /\ IsDerivative(n)
        THEN Resolve(StripSuffix[n], fuel - 1)
        ELSE n

\* C12: the owning name of a build is never itself a symlink or a
\* derivative: an alias, subpackage or derivative name is enrolled as the
\* build of the source it ultimately resolves to.
C12_BuildsOnlyOfSourceDirs ==
    \A k \in BuildKeys :
        builds[k].made => Resolve(k[1], Cardinality(Names)) = k[1]


\* the canonical files of build k, and a step that leaves a slot of build k
\* with its child reaped and the outcome `failed`
DepFiles(f, k) == <<f.dep[k], f.deperr[k]>>
LogFiles(f, k) == <<f.log[k], f.logerr[k]>>
Reaped(k, failed) ==
    \E i \in DOMAIN jobs :
        /\ jobs[i].build = k
        /\ jobs[i].pid \in hist.children \ hist'.children
        /\ jobs'[i].failed = failed

\* C13: a canonical file changes only in the step that reaps the child of
\* its build; a failed job leaves .err and keeps the success file, a
\* job that exited 0 leaves .dep / .log and keeps .err, and the job's .tmp
\* files are gone afterwards.
C13_PromotionMatchesOutcome ==
    [][\A k \in BuildKeys :
          /\ DepFiles(fs', k) # DepFiles(fs, k) =>
                /\ FLAG_DEPS \notin builds[k].flags
                /\ \E failed \in BOOLEAN : Reaped(k, failed)
          /\ LogFiles(fs', k) # LogFiles(fs, k) =>
                /\ FLAG_DEPS \in builds[k].flags
                /\ \E failed \in BOOLEAN : Reaped(k, failed)
          /\ (Reaped(k, TRUE) /\ FLAG_DEPS \notin builds[k].flags) =>
                /\ fs'.deperr[k] = fs.now /\ fs'.dep[k] = fs.dep[k]
                /\ ~fs'.deptmp[k] /\ ~fs'.errtmp[k]
                /\ LogFiles(fs', k) = LogFiles(fs, k)
          /\ (Reaped(k, FALSE) /\ FLAG_DEPS \notin builds[k].flags) =>
                /\ fs'.dep[k] = fs.now /\ fs'.deperr[k] = fs.deperr[k]
                /\ ~fs'.deptmp[k] /\ ~fs'.errtmp[k]
                /\ LogFiles(fs', k) = LogFiles(fs, k)
          /\ (Reaped(k, TRUE) /\ FLAG_DEPS \in builds[k].flags) =>
                /\ fs'.logerr[k] = fs.now /\ fs'.log[k] = fs.log[k]
                /\ ~fs'.logtmp[k]
                /\ DepFiles(fs', k) = DepFiles(fs, k)
          /\ (Reaped(k, FALSE) /\ FLAG_DEPS \in builds[k].flags) =>
                /\ fs'.log[k] = fs.now /\ fs'.logerr[k] = fs.logerr[k]
                /\ ~fs'.logtmp[k]
                /\ DepFiles(fs', k) = DepFiles(fs, k)]_vars

\* one package build failed and left only its .err, another succeeded and
\* left its .log, and a dep extraction left a .dep, with no .tmp behind
C13_Witness ==
    /\ \E k \in hist.failed :
          /\ fs.logerr[k] = fs.now /\ fs.log[k] = NoFile /\ ~fs.logtmp[k]
    /\ \E k \in hist.succeeded :
          /\ fs.log[k] = fs.now /\ fs.logerr[k] = NoFile /\ ~fs.logtmp[k]
          /\ k \in hist.extracted /\ fs.dep[k] = fs.now /\ ~fs.deptmp[k]


\* C14: a build whose dep extraction failed in this run (its .err was
\* promoted) keeps its missing or outdated .dep, stays as the first
\* enrollment left it, is not queued again and gets no package build.
C14_FailedExtractionEndsBuild ==
    \A k \in BuildKeys :
        (hist.run = 1 /\ fs.deperr[k] # NoFile)
        => /\ k \in hist.failed
           /\ fs.deperr[k] = fs.now
           /\ fs.dep[k] < fs.mtime[k[1]]
           /\ builds[k].flags = {FLAG_WORK, FLAG_DIRTY}
           /\ ~Queued(k)
           /\ k \notin hist.started

\* a dep extraction failed while another build of the run succeeded, and
\* the run ended
C14_Witness ==
    /\ pc = "done"
    /\ hist.succeeded # {}
    /\ \E k \in hist.extracted : fs.deperr[k] = fs.now /\ fs.dep[k] = NoFile


\* C15: a build goes through the enrollment body at most twice, the second
\* time only in the step that reaps its own successful dep extraction, and
\* at every other moment an enrolled build has FLAG_WORK.
C15_EnrolledAtMostTwice ==
    [][\A k \in BuildKeys :
          /\ builds'[k].passes <= 2
          /\ (builds'[k].made /\ pc' \notin {"exit", "crash"}) =>
                FLAG_WORK \in builds'[k].flags
          /\ (builds[k].passes >= 1 /\ builds'[k].passes > builds[k].passes) =>
                /\ Reaped(k, FALSE)
                /\ FLAG_DEPS \notin builds[k].flags]_vars


\* the process is over: build() returned, or exit(1), or a crash
Terminated == pc \in {"done", "exit", "crash"}

\* the process can take a step: main() has an argument left or enters
\* build(); the loop can start a job, or has a live child to wait for (every
\* child exits, so waitpid returns), or ends
CanStep ==
    \/ pc = "enroll"
    \/ /\ pc = "build"
       /\ \/ CanStart(work, numjobs, cfg.maxjobs)
          \/ numjobs # 0 /\ hist.children # {}
          \/ numjobs = 0

\* what a run has done so far; every term is bounded by the finite sets of
\* targets and builds
Variant ==
    argi + (IF pc = "enroll" THEN 0 ELSE 1) + (IF Terminated THEN 1 ELSE 0)
    + 2 * (Cardinality(hist.extracted) + Cardinality(hist.started))
    + Cardinality(hist.dropped) + Cardinality(hist.popped)
    - Cardinality(hist.children)

\* C16: the run terminates: every step adds to the bounded Variant and
\* leads to a state that is final or has a next step; the dispatch loop is
\* left exactly when nothing can be started and no job is live, which with
\* at least one job slot means an empty work queue and no live job.
C16_LoopTerminates ==
    [][/\ Variant' > Variant
       /\ Terminated' \/ CanStep'
       /\ (pc = "build" /\ pc' = "done") =>
             /\ numjobs = 0 /\ hist.children = {}
             /\ cfg.maxjobs >= 1 => work = NoBuild
       /\ (pc = "build" /\ work = NoBuild /\ numjobs = 0) => pc' = "done"]_vars

\* the loop ended with a dirty build still blocked behind a failed one
C16_Witness ==
    /\ pc = "done"
    /\ cfg.maxjobs >= 1
    /\ work = NoBuild /\ numjobs = 0
    /\ \E k \in BuildKeys :
          /\ builds[k].made /\ FLAG_DIRTY \in builds[k].flags
          /\ builds[k].nblock > 0
          /\ \E d \in DepBuilds(k) : d \in hist.failed

\* C16 as stated: the loop is left with an empty work queue for every
\* number of job slots
C16_EndsWithEmptyQueue ==
    pc = "done" => work = NoBuild /\ numjobs = 0


\* what the last enrollment of build k saw: an error file of the dep
\* extraction or of the package build, and no success file in its place
Enrolled(k) == builds[k].passes >= 1 /\ FLAG_WORK \in builds[k].flags
TemplateTime(k) == pkgnames[k[1]].mtime
DepErrSeen(k) ==
    /\ Enrolled(k)
    /\ builds[k].depmtime < TemplateTime(k)
    /\ builds[k].deperrmtime # MTIME_MISSING
LogErrSeen(k) ==
    /\ Enrolled(k)
    /\ FLAG_DEPS \in builds[k].flags
    /\ builds[k].logmtime = MTIME_MISSING
    /\ builds[k].logerrmtime # MTIME_MISSING

\* C17: a build whose error file is not older than the template is enrolled
\* SKIP|DIRTY and never queued or started; when the template is newer than
\* the error file the build is DIRTY, not skipped for the error, and is
\* queued again as soon as nothing blocks it.
C17_ErrorSkipsUntilTemplateChanges ==
    \A k \in BuildKeys :
        /\ (DepErrSeen(k) /\ builds[k].deperrmtime >= TemplateTime(k)) =>
              /\ {FLAG_SKIP, FLAG_DIRTY} \subseteq builds[k].flags
              /\ ~Queued(k)
              /\ k \notin hist.extracted \cup hist.started \cup hist.dropped
        /\ (LogErrSeen(k) /\ builds[k].logerrmtime >= TemplateTime(k)) =>
              /\ {FLAG_SKIP, FLAG_DIRTY} \subseteq builds[k].flags
              /\ ~Queued(k)
              /\ k \notin hist.started \cup hist.dropped
        /\ (DepErrSeen(k) /\ builds[k].deperrmtime < TemplateTime(k)) =>
              /\ FLAG_DIRTY \in builds[k].flags
              /\ FLAG_SKIP \notin builds[k].flags
              /\ Queued(k) \/ k \in hist.extracted \cup hist.dropped \cup hist.popped
        /\ (LogErrSeen(k) /\ builds[k].logerrmtime < TemplateTime(k)) =>
              /\ FLAG_DIRTY \in builds[k].flags \/ k \in hist.succeeded
              /\ FLAG_SKIP \in builds[k].flags => FLAG_CYCLE \in builds[k].flags
              /\ (builds[k].nblock = 0 /\ FLAG_SKIP \notin builds[k].flags) =>
                    Queued(k) \/ k \in hist.started \cup hist.dropped \cup hist.popped


\* in the second run one build is skipped for the error the first run left
\* while another, whose template was touched since, had its job started
\* again
C17_Witness ==
    /\ hist.run = 2
    /\ \E k \in BuildKeys :
          /\ \/ DepErrSeen(k) /\ builds[k].deperrmtime >= TemplateTime(k)
             \/ LogErrSeen(k) /\ builds[k].logerrmtime >= TemplateTime(k)
          /\ FLAG_SKIP \in builds[k].flags
    /\ \E k \in BuildKeys :
          /\ k[1] = hist.touched
          /\ \/ DepErrSeen(k) /\ k \in hist.extracted
             \/ LogErrSeen(k) /\ k \in hist.started
          /\ FLAG_SKIP \notin builds[k].flags


\* the job slots holding a live child of build k
Live(k) == {i \in DOMAIN jobs : jobs[i].build = k /\ jobs[i].pid \in hist.children}

\* jobstart spawned a child for the build at the head of the work list
JobStarted(k) == pc = "build" /\ work = k /\ numjobs' = numjobs + 1

\* C18: a build gets at most one dep-extraction job and at most one
\* package-build job in a run and never two live jobs at once; its
\* package-build job starts only with DEPS set and the dep cache present,
\* after its own dep extraction (if there was one) was reaped with exit 0,
\* and no dep extraction follows the package build; a dep cache appears only
\* by the reaping of the build's extraction.
C18_JobsOncePerBuildInOrder ==
    [][\A k \in BuildKeys :
          /\ Cardinality(Live(k))' <= 1
          /\ JobStarted(k) =>
                /\ Live(k) = {}
                /\ IF FLAG_DEPS \in builds[k].flags
                   THEN /\ k \notin hist.started
                        /\ k \in hist'.started
                        /\ fs.dep[k] # NoFile
                        /\ k \in hist.extracted => k \notin hist.failed
                   ELSE /\ k \notin hist.extracted
                        /\ k \in hist'.extracted
                        /\ k \notin hist.started
          /\ (fs.dep[k] = NoFile /\ fs'.dep[k] # NoFile) =>
                k \in hist.extracted /\ Reaped(k, FALSE)]_vars

\* a build without dep cache and log had its extraction and then its
\* package build, both reaped, while the other job slot was busy too
C18_Witness ==
    \E k \in BuildKeys :
        /\ k \in hist.extracted /\ k \in hist.succeeded
        /\ Live(k) = {}
        /\ \E o \in BuildKeys \ {k} : Live(o) # {}

\* C18, last clause: in a run where no job failed or was dropped and no
\* build is skipped, a build whose dep extraction ran and that had no log
\* got its package build after the extraction, so its log exists when the
\* run ends
C18_ExtractionFollowedByBuild ==
    (pc = "done" /\ ~cfg.dryrun /\ cfg.maxjobs >= 1
        /\ hist.failed = {} /\ hist.dropped = {}
        /\ \A j \in BuildKeys : FLAG_SKIP \notin builds[j].flags)
    => \A k \in hist.extracted : fs.log[k] # NoFile


\* C19: a build is pushed onto the work queue only while it is DIRTY, not
\* SKIP and has nblock 0.
C19_QueuedOnlyDirtyReady ==
    [][\A k \in BuildKeys :
          (~Queued(k) /\ Queued(k)') =>
              /\ FLAG_DIRTY \in builds'[k].flags
              /\ FLAG_SKIP \notin builds'[k].flags
              /\ builds'[k].nblock = 0]_vars


\* C20: between the steps of the program no enrollment call is active, so
\* no build has its CYCLE flag set, also after an enrollment that detected
\* or propagated a dependency cycle.
C20_CycleFlagClearOffStack ==
    pc \notin {"exit", "crash"} =>
        \A k \in BuildKeys : FLAG_CYCLE \notin builds[k].flags


\* the enrollment body ran for build k in this step
BodyRan(k) == builds'[k].passes = builds[k].passes + 1 /\ pc' \notin {"exit", "crash"}

\* the dep cache of k as the enrollment of this step found it: missing or
\* older than the template, and no dep error file as new as the template
DepOutdated(k) ==
    /\ fs'.dep[k] < pkgnames'[k[1]].mtime
    /\ fs'.deperr[k] < pkgnames'[k[1]].mtime

\* the build main() enrolls for its current argument
TargetBuild ==
    LET n == Distdirs[cfg.distdir].targets[argi]
    IN  <<IF pkgnames'[n].srcpkg # NoName THEN pkgnames'[n].srcpkg ELSE n,
          "aarch64">>

\* C21: a build enrolled with its dep cache missing or outdated (and no dep
\* error file as new as the template) is left WORK|DIRTY with nblock 0 and
\* without dependency lists, on the work queue for its dep extraction; when
\* it is the build of a command-line target, the step changes no other
\* build and pushes exactly this build.
C21_OutdatedDepQueuesExtractionOnly ==
    [][\A k \in BuildKeys :
          (BodyRan(k) /\ DepOutdated(k)) =>
              /\ builds'[k].flags = {FLAG_WORK, FLAG_DIRTY}
              /\ builds'[k].nblock = 0
              /\ builds'[k].hostdeps = <<>>
              /\ builds'[k].targetdeps = <<>>
              /\ builds'[k].subpkgs = <<>>
              /\ Queued(k)'
              /\ (pc = "enroll" /\ argi' = argi + 1 /\ k = TargetBuild) =>
                    /\ \A j \in BuildKeys \ {k} : builds'[j] = builds[j]
                    /\ work' = k
                    /\ builds'[k].worknext = work
                    /\ numtotal' = numtotal + 1]_vars

\* a second target was enrolled with an outdated dep cache on top of a
\* queue that already held another build
C21_Witness ==
    /\ pc = "enroll"
    /\ work # NoBuild
    /\ builds[work].flags = {FLAG_WORK, FLAG_DIRTY}
    /\ builds[work].passes = 1
    /\ fs.dep[work] # NoFile
    /\ fs.dep[work] < pkgnames[work[1]].mtime
    /\ builds[work].worknext # NoBuild
    /\ Distdirs[cfg.distdir].depends[work[1]] # <<>>


\* no element occurs twice in the sequence
NoDup(q) == \A i, j \in 1..Len(q) : q[i] = q[j] => i = j

\* the dispatcher takes a build off the work list in this step
PopStep == pc = "build" /\ CanStart(work, numjobs, cfg.maxjobs)

\* C22: the work queue is a stack without duplicates: a step leaves the
\* builds already queued in place and in order, puts new builds in front of
\* them, and the dispatcher removes exactly the head (the build pushed last
\* among those still queued), which is the build of the job it starts; the
\* choice depends on nothing but the queue.
C22_WorkQueueIsLifo ==
    [][/\ NoDup(WorkList')
       /\ \E i \in 0..Len(WorkList') :
             /\ SubSeq(WorkList', i + 1, Len(WorkList'))
                   = IF PopStep THEN Tail(WorkList) ELSE WorkList
             /\ \A j \in 1..i : ~Queued(WorkList'[j])
       /\ PopStep => \A j \in 1..Len(WorkList') : WorkList'[j] # work
       /\ numjobs' = numjobs + 1 =>
             /\ PopStep
             /\ \E s \in DOMAIN jobs' :
                   /\ jobs'[s].build = Head(WorkList)
                   /\ jobs'[s].pid \in hist'.children \ hist.children]_vars

\* the completion of a dependency has pushed its dependent in front of a
\* build that was queued at enrollment
C22_Witness ==
    /\ pc = "build"
    /\ Len(WorkList) >= 2
    /\ \E d \in hist.succeeded : d \in DepBuilds(WorkList[1])
    /\ DepBuilds(WorkList[2]) \cap hist.succeeded = {}


\* the names build k lists both as host and as target dependency
BothWays(k) ==
    {builds[k].hostdeps[i] : i \in 1..Len(builds[k].hostdeps)}
    \cap {builds[k].targetdeps[i] : i \in 1..Len(builds[k].targetdeps)}

\* C23: the package build of a cross build that lists a name both as host
\* and as target dependency is started only when the build of that name
\* under the host builder and the one under the build's own builder have
\* each succeeded (or needed no build).
C23_StartedAfterBothBuildsOfDep ==
    [][\A k \in BuildKeys :
          (JobStarted(k) /\ FLAG_DEPS \in builds[k].flags
              /\ HostBuilder(k[2]) # k[2]) =>
              \A n \in BothWays(k) :
                  \A d \in {<<Owner(n), HostBuilder(k[2])>>, <<Owner(n), k[2]>>} :
                      d \in hist.succeeded \/ FLAG_DIRTY \notin builds[d].flags]_vars


\* C24: no completion propagation decrements a block counter that is 0: the
\* counter of every build stays a count of dependency entries and never
\* holds a value wrapped around below zero.
C24_NblockNeverWraps ==
    \A k \in BuildKeys :
        builds[k].nblock <= Len(builds[k].hostdeps) + Len(builds[k].targetdeps)


\* the slots that hold a live job
LiveSlots == {i \in DOMAIN jobs : jobs[i].pid \in hist.children}

\* the free list: the slots reached from index i by the next fields, at most
\* n of them, up to the first index outside the array
RECURSIVE FreeFrom(_, _)
FreeFrom(i, n) ==
    IF n = 0 \/ i \notin DOMAIN jobs THEN <<>>
    ELSE <<i>> \o FreeFrom(jobs[i].next, n - 1)

FreeList == FreeFrom(next, cfg.maxjobs + 1)

\* C25: in the dispatch loop the free list holds exactly the slots without
\* a live job, each once; numjobs counts the live slots, so with fewer than
\* maxjobs live jobs the next index is inside the array and names a free
\* slot; every live child's pid is in exactly one slot; a reap puts the
\* released slot at the head of the free list and a failed start leaves
\* the free list and numjobs as they were.
C25_FreeListConsistent ==
    [][(pc' = "build") =>
          /\ NoDup(FreeList')
          /\ {FreeList'[i] : i \in 1..Len(FreeList')} = DOMAIN jobs' \ LiveSlots'
          /\ Cardinality(LiveSlots') = numjobs'
          /\ numjobs' < cfg.maxjobs =>
                /\ next' \in 0..(cfg.maxjobs - 1)
                /\ next' \notin LiveSlots'
          /\ \A p \in hist'.children :
                Cardinality({i \in DOMAIN jobs' : jobs'[i].pid = p}) = 1
          /\ \A i \in LiveSlots \ LiveSlots' : next' = i
          /\ (pc = "build" /\ numfail' = numfail + 1 /\ numjobs' = numjobs) =>
                /\ next' = next
                /\ LiveSlots' = LiveSlots]_vars

\* a start has failed on a slot released by an earlier reap while the
\* other slot holds a live job
C25_Witness ==
    /\ pc = "build"
    /\ cfg.maxjobs = 2
    /\ numjobs = 1
    /\ hist.dropped # {}
    /\ next \in DOMAIN jobs
    /\ jobs[next].pid = -1
    /\ jobs[next].build \in hist.dropped
    /\ LiveSlots # {}


(***************************************************************************)
(* readdeps (lines 366-435): the dep file is read line by line.  A line    *)
(* is the sequence of its characters without the newline.                  *)
(***************************************************************************)
\* the longest dep file of the model, in lines
MaxLines == 3

\* the enum of the parser states
Sdefault == 0
Sarray == 1
Shostdep == 32
Smakedep == 64
Stargdep == 96
Ssubpkgs == 192

\* the string literals readdeps compares a key with
K_hostmakedepends ==
    <<"h", "o", "s", "t", "m", "a", "k", "e", "d", "e", "p", "e", "n", "d", "s">>
K_makedepends ==
    <<"m", "a", "k", "e", "d", "e", "p", "e", "n", "d", "s">>
K_depends ==
    <<"d", "e", "p", "e", "n", "d", "s">>
K_subpackages ==
    <<"s", "u", "b", "p", "a", "c", "k", "a", "g", "e", "s">>

\* the lines a dep file of the model is made of: the four list keys, the
\* empty key, proper prefixes of list keys, a key that extends one, an
\* unknown key, a scalar, two list elements and a line without a colon
L_hostmakedepends == <<"h", "o", "s", "t", "m", "a", "k", "e", "d", "e", "p", "e", "n", "d", "s", ":">>
L_makedepends == <<"m", "a", "k", "e", "d", "e", "p", "e", "n", "d", "s", ":">>
L_depends == <<"d", "e", "p", "e", "n", "d", "s", ":">>
L_subpackages == <<"s", "u", "b", "p", "a", "c", "k", "a", "g", "e", "s", ":">>
L_empty == <<":">>
L_host == <<"h", "o", "s", "t", ":">>
L_make == <<"m", "a", "k", "e", ":">>
L_sub == <<"s", "u", "b", ":">>
L_dependsx == <<"d", "e", "p", "e", "n", "d", "s", "x", ":">>
L_other == <<"o", "t", "h", "e", "r", ":">>
L_version == <<"v", "e", "r", "s", "i", "o", "n", ":", " ", "1">>
L_b == <<" ", "b">>
L_c == <<" ", "c">>
L_bare == <<"b">>
Lines == {L_hostmakedepends, L_makedepends, L_depends, L_subpackages, L_empty, L_host, L_make,
          L_sub, L_dependsx, L_other, L_version, L_b, L_c, L_bare}

RECURSIVE FilesOf(_)
FilesOf(n) ==
    IF n = 0 THEN {<<>>}
    ELSE FilesOf(n - 1)
         \cup {Append(f, l) : f \in {g \in FilesOf(n - 1) : Len(g) = n - 1},
                              l \in Lines}
Files == FilesOf(MaxLines)

\* the character at offset i - 1 of a C string, NUL behind its end
At(str, i) == IF i <= Len(str) THEN str[i] ELSE "NUL"

\* strncmp(a, b, n) == 0: the first n characters agree, up to a common NUL
strncmp0(a, b, n) ==
    \A i \in 1..n :
        \/ At(a, i) = At(b, i)
        \/ \E j \in 1..(i - 1) : At(a, j) = "NUL" /\ At(b, j) = "NUL"

\* strchr(line, ':'): the index of the first colon, 0 for NULL
strchr(line) ==
    IF \E i \in 1..Len(line) : line[i] = ":"
    THEN CHOOSE i \in 1..Len(line) :
            line[i] = ":" /\ \A j \in 1..(i - 1) : line[j] # ":"
    ELSE 0

\* lines 401-411: the state a list key line leaves; d is the colon's index
KeyState(line, d) ==
    IF strncmp0(K_hostmakedepends, line, d - 1) THEN Sarray + Shostdep
    ELSE IF strncmp0(K_makedepends, line, d - 1) THEN Sarray + Smakedep
    ELSE IF strncmp0(K_depends, line, d - 1) THEN Sarray + Stargdep
    ELSE IF strncmp0(K_subpackages, line, d - 1) THEN Sarray + Ssubpkgs
    ELSE Sarray

\* lines 384-396: an indented line while a list is open; line+1 is the name
AddElement(r, line) ==
    LET list == r.state - (r.state % 2)
        name == Tail(line)
    IN  IF list = Shostdep THEN [r EXCEPT !.hostdeps = Append(@, name)]
        ELSE IF list \in {Smakedep, Stargdep}
        THEN [r EXCEPT !.targetdeps = Append(@, name)]
        ELSE IF list = Ssubpkgs THEN [r EXCEPT !.subpkgs = Append(@, name)]
        ELSE r

\* lines 399-428: a line that is no list element
KeyLine(r, line) ==
    LET d == strchr(line)
    IN  IF d = 0 THEN [r EXCEPT !.status = "error"]
        ELSE IF d = Len(line) THEN [r EXCEPT !.state = KeyState(line, d)]
        ELSE r

\* one pass of the while loop
readline(r, line) ==
    LET r1 == [r EXCEPT !.i = @ + 1]
    IN  IF r.state % 2 = 1 /\ At(line, 1) = " " THEN AddElement(r1, line)
        ELSE KeyLine([r1 EXCEPT !.state = Sdefault], line)

NewReader(f) ==
    [status |-> "reading", file |-> f, i |-> 1, state |-> Sdefault,
     hostdeps |-> <<>>, targetdeps |-> <<>>, subpkgs |-> <<>>]

\* getdelim returned a line
ReadLine ==
    /\ reader.status = "reading"
    /\ reader.i <= Len(reader.file)
    /\ reader' = readline(reader, reader.file[reader.i])
    /\ UNCHANGED <<cfg, fs, pkgnames, builds, work, numtotal, pc, argi,
                   jobs, next, numjobs, numfinished, numfail, hist>>

\* getdelim returned -1: the loop ends and the function runs off its end
ReadEof ==
    /\ reader.status = "reading"
    /\ reader.i > Len(reader.file)
    /\ reader' = [reader EXCEPT !.status = "eof"]
    /\ UNCHANGED <<cfg, fs, pkgnames, builds, work, numtotal, pc, argi,
                   jobs, next, numjobs, numfinished, numfail, hist>>

\* readdeps on every dep file of the model, for one build of a process
\* that has just started
InitReaddeps ==
    /\ cfg = [distdir |-> 1, maxjobs |-> 1, dryrun |-> FALSE, readdeps |-> 0,
              nullwrite |-> "crash"]
    /\ fs = InitFs(Distdirs[1], [n \in Names |-> "none"])
    /\ hist = NewHist(1, NoName, TRUE, TRUE)
    /\ Startup(pkgnames, builds, work, numtotal, pc, argi,
               jobs, next, numjobs, numfinished, numfail)
    /\ reader \in {NewReader(f) : f \in Files}

NextReaddeps ==
    \/ ReadLine
    \/ ReadEof

SpecReaddeps == InitReaddeps /\ [][NextReaddeps]_vars

\* the key of the list an indented line at index i belongs to: the key of
\* the nearest line before it that is not indented (none: the empty key)
RECURSIVE ListKey(_, _)
ListKey(f, i) ==
    IF i <= 1 THEN <<>>
    ELSE IF At(f[i - 1], 1) = " " THEN ListKey(f, i - 1)
    ELSE SubSeq(f[i - 1], 1, strchr(f[i - 1]) - 1)

\* C26: an element is appended to the host-dependency list only under the
\* exact key hostmakedepends, to the target-dependency list only under
\* makedepends or depends, to the subpackage list only under subpackages,
\* each at the end of its list; under any other key nothing is appended.
C26_OnlyExactKeysFillLists ==
    [][reader.status = "reading" /\ reader.i <= Len(reader.file) =>
          LET key == ListKey(reader.file, reader.i)
              name == Tail(reader.file[reader.i])
          IN  /\ reader'.hostdeps # reader.hostdeps =>
                    /\ key = K_hostmakedepends
                    /\ reader'.hostdeps = Append(reader.hostdeps, name)
              /\ reader'.targetdeps # reader.targetdeps =>
                    /\ key \in {K_makedepends, K_depends}
                    /\ reader'.targetdeps = Append(reader.targetdeps, name)
              /\ reader'.subpkgs # reader.subpkgs =>
                    /\ key = K_subpackages
                    /\ reader'.subpkgs = Append(reader.subpkgs, name)]_vars

====
